---- MODULE Spec2Model ----
(***************************************************************************)
(* Model of three parts of the node:                                       *)
(*  - the extension-component build stage of                               *)
(*    crates/node/builder/src/builder/ext.rs: the Component Container      *)
(*    (WithComponentsExt), the Build Stage (ExtComponentsBuildStage) with  *)
(*    its registration and build_* operations, and the build driver        *)
(*    (NodeComponentsExtBuild::build), specifications Spec and FairSpec;   *)
(*  - the drop-stage command of bin/reth/src/commands/stage/drop.rs,       *)
(*    specification SpecDrop;                                              *)
(*  - the txpool handlers of crates/rpc/rpc/src/txpool.rs, specification   *)
(*    SpecPool.                                                            *)
(***************************************************************************)
EXTENDS Integers, Sequences, FiniteSets, TLC

\* ---------------------------------------------------------------- bounds
\* number of primary hooks (Box<dyn OnComponentsInitializedHook>) ever created
MaxHooks == 3
\* number of post-start hooks (Box<dyn OnRpcStarted>) ever registered
MaxAddOns == 2
\* number of engine_shutdown_rx calls
MaxRxCalls == 2

\* ---------------------------------------------------------------- values
None == [tag |-> "None"]
Some(x) == [tag |-> "Some", val |-> x]

StageSet == {"pipeline", "engine", "rpc"}
Rank(X) == CASE X = "pipeline" -> 1 [] X = "engine" -> 2 [] X = "rpc" -> 3

\* the two context builders a caller can install
CtxBuilders == {"build_ctx", "custom"}

\* ShutdownRx::default()
DefaultRx == [rx |-> "default"]
Receiver(h) == [rx |-> "receiver", of |-> h]

\* eyre::Result
Ok(v) == [kind |-> "Ok", value |-> v]
Err(e) == [kind |-> "Err", error |-> e]

\* the immutable core launch context (LaunchContextWith<Attached<WithConfigs, ()>>)
core_ctx == [inner |-> "launch_ctx", attachment |-> [left |-> "configs", right |-> "unit"]]

VARIABLES
    components,        \* Box<dyn InitializedComponentsExt>: the WithComponentsExt
    ctx_builder,       \* ExtComponentsBuildStage.ctx_builder
    pipeline_builder,  \* Option<Box<dyn OnComponentsInitializedHook>>
    engine_builder,
    rpc_builder,
    rpc_add_ons,       \* Vec<Box<dyn OnRpcStarted>>
    ctx,               \* the live ExtBuilderContext, if a hook's on_event is running
    futures,           \* futures returned by build_* and not yet awaited
    pc,                \* position of NodeComponentsExtBuild::build
    result,            \* value returned by NodeComponentsExtBuild::build
    registered,        \* history: primary-hook registrations, in order
    invoked,           \* history: hook invocations (on_event calls)
    completed,         \* history: the awaited futures with their outcome
    rxlog,             \* history: values returned by engine_shutdown_rx
    self_stage,        \* drop-stage Command.stage
    db,                \* the database the drop-stage command opens
    snapshots,         \* the files of the snapshots directory
    log,               \* messages written by info!
    ret,               \* value returned by Command::execute
    deleted,           \* history: the snapshot files removed by delete_jar
    cmd_pc,            \* position of Command::execute
    segment_snapshots, \* the block ranges the deletion loop has still to visit
    pool,              \* the transaction pool behind the txpool handlers
    pool_events,       \* history: the number of changes the pool has seen
    all,               \* txpool_status: the snapshot its all_transactions() returned
    all_content,       \* content(): the snapshot its all_transactions() returned
    status_reply,      \* last reply of txpool_status
    content_reply      \* last reply of txpool_content

\* the state of the drop-stage command and of the txpool namespace
cmdVars == <<self_stage, db, snapshots, log, ret, deleted, cmd_pc, segment_snapshots>>
poolVars == <<pool, pool_events, all, all_content, status_reply, content_reply>>

vars == <<components, ctx_builder, pipeline_builder, engine_builder, rpc_builder,
          rpc_add_ons, ctx, futures, pc, result, registered,
          invoked, completed, rxlog, cmdVars, poolVars>>

stageVars == <<ctx_builder, pipeline_builder, engine_builder, rpc_builder, rpc_add_ons>>
histVars == <<registered, invoked, completed, rxlog>>

\* ------------------------------------------------------------ construction
\* faulty variant: a container born with its pipeline slot filled
WithComponentsExt_new_filled(core) ==
    [core |-> core, pipeline |-> Some([id |-> 0]), engine |-> None,
     engine_shutdown_rx |-> None, rpc |-> None]

\* WithComponentsExt::new
WithComponentsExt_new(core) ==
    [core |-> core, pipeline |-> None, engine |-> None,
     engine_shutdown_rx |-> None, rpc |-> None]

\* ExtComponentsBuildStage::new
ExtComponentsBuildStage_new(cb, comps) ==
    [core_ctx |-> core_ctx, ctx_builder |-> cb, pipeline_builder |-> None,
     engine_builder |-> None, rpc_builder |-> None, rpc_add_ons |-> <<>>,
     components |-> comps]

\* the build stage as constructed with context builder cb
StageInit(cb) ==
        LET st == ExtComponentsBuildStage_new(cb, WithComponentsExt_new("node")) IN
        /\ components = st.components
        /\ ctx_builder = st.ctx_builder
        /\ pipeline_builder = st.pipeline_builder
        /\ engine_builder = st.engine_builder
        /\ rpc_builder = st.rpc_builder
        /\ rpc_add_ons = st.rpc_add_ons
        /\ ctx = None
        /\ futures = {}
        /\ pc = "idle"
        /\ result = None
        /\ registered = <<>>
        /\ invoked = <<>>
        /\ completed = {}
        /\ rxlog = <<>>

\* no drop-stage command has been started
CmdOff ==
    /\ self_stage = None
    /\ db = None
    /\ snapshots = {}
    /\ log = <<>>
    /\ ret = None
    /\ deleted = {}
    /\ cmd_pc = "off"
    /\ segment_snapshots = <<>>

\* no txpool handler is being served
PoolOff ==
    /\ pool = [pending |-> <<>>, queued |-> <<>>]
    /\ pool_events = 0
    /\ all = None
    /\ all_content = None
    /\ status_reply = None
    /\ content_reply = None

Init ==
    /\ \E cb \in CtxBuilders : StageInit(cb)
    /\ CmdOff
    /\ PoolOff

\* --------------------------------------------------------------- accessors
\* InitializedComponentsExt::pipeline / engine / rpc
Slot(c, X) == CASE X = "pipeline" -> c.pipeline [] X = "engine" -> c.engine [] X = "rpc" -> c.rpc

\* the stage's hook slot for stage X
Builder(X) ==
    CASE X = "pipeline" -> pipeline_builder
      [] X = "engine" -> engine_builder
      [] X = "rpc" -> rpc_builder

\* the caller owns the stage until it is moved into build(); a &mut self call
\* is possible only while no ExtBuilderContext borrows the stage
CallerMay == pc = "idle" /\ ctx = None

\* ------------------------------------------------------------ registration
\* the assignment to the hook slot of stage X
\* faulty variant: the assignment empties the other two hook slots
SetBuilder_clearing(X, v) ==
    /\ pipeline_builder' = IF X = "pipeline" THEN v ELSE None
    /\ engine_builder' = IF X = "engine" THEN v ELSE None
    /\ rpc_builder' = IF X = "rpc" THEN v ELSE None

SetBuilder(X, v) ==
    /\ pipeline_builder' = IF X = "pipeline" THEN v ELSE pipeline_builder
    /\ engine_builder' = IF X = "engine" THEN v ELSE engine_builder
    /\ rpc_builder' = IF X = "rpc" THEN v ELSE rpc_builder

\* the frame of a registration: it neither runs a hook nor touches the container
RegistrationFrame ==
    UNCHANGED <<components, ctx, futures, pc, result, invoked, completed, rxlog,
                cmdVars, poolVars>>

\* identity of the next primary hook box
NextHook == Len(registered) + 1

\* pipeline_builder / engine_builder / rpc_builder: self.X_builder = Some(b)
\* faulty variant: a filled slot keeps the hook it holds
RegisterHook_first(X, b) ==
    /\ CallerMay
    /\ b = NextHook
    /\ b <= MaxHooks
    /\ SetBuilder(X, IF Builder(X) # None THEN Builder(X) ELSE Some(b))
    /\ registered' = Append(registered, [slot |-> X, hook |-> b])
    /\ UNCHANGED <<ctx_builder, rpc_add_ons>>

RegisterHook(X, b) ==
    /\ CallerMay
    /\ b = NextHook
    /\ b <= MaxHooks
    /\ SetBuilder(X, Some(b))
    /\ registered' = Append(registered, [slot |-> X, hook |-> b])
    /\ UNCHANGED <<ctx_builder, rpc_add_ons>>

Set_pipeline_builder(b) ==
    RegisterHook("pipeline", b) /\ RegistrationFrame

Set_engine_builder(b) ==
    RegisterHook("engine", b) /\ RegistrationFrame

Set_rpc_builder(b) ==
    RegisterHook("rpc", b) /\ RegistrationFrame

\* ctx_builder: self.ctx_builder = b
Set_ctx_builder(b) ==
    /\ CallerMay
    /\ b # ctx_builder
    /\ ctx_builder' = b
    /\ RegistrationFrame
    /\ UNCHANGED <<pipeline_builder, engine_builder, rpc_builder, rpc_add_ons, registered>>

\* identity of the next post-start hook box
NextAddOn == 100 + Len(rpc_add_ons) + 1

\* on_rpc_started: self.rpc_add_ons.push(hook)
\* faulty variant: the list is replaced by one holding only the new hook
on_rpc_started_replace(hook) ==
    /\ CallerMay
    /\ hook = NextAddOn
    /\ hook <= 100 + MaxAddOns
    /\ rpc_add_ons' = <<hook>>
    /\ RegistrationFrame
    /\ UNCHANGED <<ctx_builder, pipeline_builder, engine_builder, rpc_builder, registered>>

on_rpc_started(hook) ==
    /\ CallerMay
    /\ hook = NextAddOn
    /\ hook <= 100 + MaxAddOns
    /\ rpc_add_ons' = Append(rpc_add_ons, hook)
    /\ RegistrationFrame
    /\ UNCHANGED <<ctx_builder, pipeline_builder, engine_builder, rpc_builder, registered>>

\* ------------------------------------------------------------ build context
\* the free function build_ctx: a context over the borrowed container
build_ctx(core, comps) ==
    [inner |-> core.inner,
     attachment |-> [left |-> core.attachment.left, right |-> comps]]

\* ExtComponentCtxBuilder::build_ctx for a closure F: self(core_ctx, components)
ExtComponentCtxBuilder_build_ctx(cb, core, comps) ==
    IF cb = "build_ctx"
    THEN build_ctx(core, comps)
    ELSE [inner |-> cb,
          attachment |-> [left |-> core.attachment.left, right |-> comps]]

\* ExtComponentsBuildStage::build_ctx
\* faulty variant: the context is derived over a container as constructed
Stage_build_ctx_stale ==
    ExtComponentCtxBuilder_build_ctx(ctx_builder, core_ctx, WithComponentsExt_new("node"))

Stage_build_ctx ==
    ExtComponentCtxBuilder_build_ctx(ctx_builder, core_ctx, components)

\* ------------------------------------------------------------------ driver
\* the position of build() while it awaits the future of stage X
\* faulty variant: the future is dropped and build() goes on to the next stage
AwaitPc_skip(X) ==
    CASE X = "pipeline" -> "engine"
      [] X = "engine" -> "rpc"
      [] X = "rpc" -> "await_rpc"

AwaitPc(X) ==
    CASE X = "pipeline" -> "await_pipeline"
      [] X = "engine" -> "await_engine"
      [] X = "rpc" -> "await_rpc"

\* the statement after stage X of build(): the next `if let`, or the final
\* Ok(stage.components().node().clone())
\* faulty variant: the engine and rpc stages in the wrong order
DriverAdvance_swapped(X) ==
    CASE X = "pipeline" -> pc' = "rpc" /\ UNCHANGED result
      [] X = "rpc" -> pc' = "engine" /\ UNCHANGED result
      [] X = "engine" -> pc' = "complete" /\ result' = Some(Ok(components.core))

DriverAdvance(X) ==
    CASE X = "pipeline" -> pc' = "engine" /\ UNCHANGED result
      [] X = "engine" -> pc' = "rpc" /\ UNCHANGED result
      [] X = "rpc" -> pc' = "complete" /\ result' = Some(Ok(components.core))

\* the `?` operator on an awaited hook result: the error is returned as it is
\* faulty variant: a failure turned into a returned node handle
Try_partial(res) == Ok("node")

Try(res) == Err(res.error)

\* `builder.await?` of stage X in build(): go on after Ok, return the Err
\* faulty variant: `builder.await` without the `?`
Question_ignore(X, res) == DriverAdvance(X)

Question(X, res) ==
    IF res.kind = "Ok"
    THEN DriverAdvance(X)
    ELSE pc' = "failed" /\ result' = Some(Try(res))

\* NodeComponentsBuilderExt::build is called: the stage is moved into the
\* driver, which drops it when it returns; the caller has no access to it any
\* more and the stage's fields keep their last value in the model
DriverStart ==
    /\ pc = "idle"
    /\ ctx = None
    /\ pc' = "pipeline"
    /\ UNCHANGED <<components, stageVars, ctx, futures, result, histVars>>
    /\ UNCHANGED <<cmdVars, poolVars>>

\* ----------------------------------------------------------------- build_*
\* Option::take on the hook slot of stage X
\* faulty variant: the hook is read and left in its slot
TakeHook_keep(X) == UNCHANGED <<pipeline_builder, engine_builder, rpc_builder>>

TakeHook(X) == SetBuilder(X, None)

\* build_pipeline / build_engine / build_rpc up to the call of on_event:
\*   let b = self.X_builder.take()?; let ctx = self.build_ctx(); b.on_event(ctx)
\* With an empty slot the call returns None at the `?` and changes nothing.
\* faulty variant: an empty slot makes the driver fail
BuildX_fail_empty(X, by) ==
    /\ ctx = None
    /\ IF by = "caller" THEN pc = "idle" ELSE pc = X
    /\ UNCHANGED <<cmdVars, poolVars>>
    /\ IF Builder(X) = None
       THEN /\ IF by = "driver"
               THEN pc' = "failed" /\ result' = Some(Err(<<"missing">>))
               ELSE UNCHANGED <<pc, result>>
            /\ UNCHANGED <<components, stageVars, ctx, futures, histVars>>
       ELSE /\ TakeHook(X)
            /\ ctx' = Some([stage |-> X, hook |-> Builder(X).val, by |-> by,
                            context |-> Stage_build_ctx])
            /\ invoked' = Append(invoked, [stage |-> X, hook |-> Builder(X).val, by |-> by])
            /\ UNCHANGED <<components, ctx_builder, rpc_add_ons, futures, pc, result,
                           registered, completed, rxlog>>

\* faulty variant: build_X callable while a context borrows the stage
BuildX_reentrant(X, by) ==
    /\ IF by = "caller" THEN pc = "idle" ELSE pc = X
    /\ UNCHANGED <<cmdVars, poolVars>>
    /\ IF Builder(X) = None
       THEN /\ IF by = "driver" THEN DriverAdvance(X) ELSE UNCHANGED <<pc, result>>
            /\ UNCHANGED <<components, stageVars, ctx, futures, histVars>>
       ELSE /\ TakeHook(X)
            /\ ctx' = Some([stage |-> X, hook |-> Builder(X).val, by |-> by,
                            context |-> Stage_build_ctx])
            /\ invoked' = Append(invoked, [stage |-> X, hook |-> Builder(X).val, by |-> by])
            /\ UNCHANGED <<components, ctx_builder, rpc_add_ons, futures, pc, result,
                           registered, completed, rxlog>>

BuildX(X, by) ==
    /\ ctx = None
    /\ IF by = "caller" THEN pc = "idle" ELSE pc = X
    /\ UNCHANGED <<cmdVars, poolVars>>
    /\ IF Builder(X) = None
       THEN /\ IF by = "driver" THEN DriverAdvance(X) ELSE UNCHANGED <<pc, result>>
            /\ UNCHANGED <<components, stageVars, ctx, futures, histVars>>
       ELSE /\ TakeHook(X)
            /\ ctx' = Some([stage |-> X, hook |-> Builder(X).val, by |-> by,
                            context |-> Stage_build_ctx])
            /\ invoked' = Append(invoked, [stage |-> X, hook |-> Builder(X).val, by |-> by])
            /\ UNCHANGED <<components, ctx_builder, rpc_add_ons, futures, pc, result,
                           registered, completed, rxlog>>

build_pipeline(by) == BuildX("pipeline", by)

build_engine(by) == BuildX("engine", by)

build_rpc(by) == BuildX("rpc", by)

\* ------------------------------------------------------------------- hooks
\* the cause hook h fails with, when it fails
CauseOf(h) == IF h % 2 = 1 THEN "io" ELSE "config"

\* the component a hook builds; a new engine owns its shutdown receiver
Component(X, h) ==
    IF X = "engine" THEN [id |-> h, shutdown_rx |-> Receiver(h)] ELSE [id |-> h]

\* a hook populates its own slot of the container behind the context; a slot
\* that is filled is never replaced
HookWrite(c, X, h) ==
    IF Slot(c, X) # None THEN c
    ELSE CASE X = "pipeline" -> [c EXCEPT !.pipeline = Some(Component(X, h))]
           [] X = "engine" -> [c EXCEPT !.engine = Some(Component(X, h))]
           [] X = "rpc" -> [c EXCEPT !.rpc = Some(Component(X, h))]

\* OnComponentsInitializedHook::on_event runs with the live context and
\* returns the future; the context dies when the call returns.  A hook that
\* is going to succeed (ok) has written its slot.
on_event(ok) ==
    /\ ctx # None
    /\ LET c == ctx.val
           fut == [stage |-> c.stage, hook |-> c.hook, by |-> c.by, ok |-> ok]
       IN /\ components' = IF ok THEN HookWrite(components, c.stage, c.hook) ELSE components
          /\ futures' = futures \cup {fut}
          /\ ctx' = None
          /\ pc' = IF c.by = "driver" THEN AwaitPc(c.stage) ELSE pc
    /\ UNCHANGED <<stageVars, result, histVars, cmdVars, poolVars>>

\* what a hook's future resolves to
Outcome(f) == IF f.ok THEN Ok("unit") ELSE Err(<<CauseOf(f.hook)>>)

\* builder.await, by the driver (builder.await?) or by the caller.  The future
\* a caller got from build_X is an owned box that does not borrow the stage:
\* it can be awaited at any time, also after the stage was moved into build()
\* faulty variant: a hook whose future failed is put back into its slot
await_retry(f) ==
    /\ f \in futures
    /\ f.by = "driver" => pc = AwaitPc(f.stage)
    /\ futures' = futures \ {f}
    /\ completed' = completed \cup {[stage |-> f.stage, hook |-> f.hook,
                                     by |-> f.by, res |-> Outcome(f)]}
    /\ IF f.by = "driver"
       THEN Question(f.stage, Outcome(f))
       ELSE UNCHANGED <<pc, result>>
    /\ IF Outcome(f).kind = "Err" /\ Builder(f.stage) = None
       THEN SetBuilder(f.stage, Some(f.hook))
       ELSE UNCHANGED <<pipeline_builder, engine_builder, rpc_builder>>
    /\ UNCHANGED <<components, ctx_builder, rpc_add_ons, ctx, registered, invoked, rxlog>>
    /\ UNCHANGED <<cmdVars, poolVars>>

await(f) ==
    /\ f \in futures
    /\ f.by = "driver" => pc = AwaitPc(f.stage)
    /\ futures' = futures \ {f}
    /\ completed' = completed \cup {[stage |-> f.stage, hook |-> f.hook,
                                     by |-> f.by, res |-> Outcome(f)]}
    /\ IF f.by = "driver"
       THEN Question(f.stage, Outcome(f))
       ELSE UNCHANGED <<pc, result>>
    /\ UNCHANGED <<components, stageVars, ctx, registered, invoked, rxlog>>
    /\ UNCHANGED <<cmdVars, poolVars>>

\* ------------------------------------------------------ engine_shutdown_rx
\* mem::take(rx): the value moved out and the value left behind
\* faulty variant: the receiver is copied and left in place
mem_take_copy(rx) == [ret |-> rx, left |-> rx]

mem_take(rx) == [ret |-> rx, left |-> DefaultRx]

\* StageExtComponentsBuild::engine_shutdown_rx on container c
\* faulty variant: the take empties the engine slot itself
engine_shutdown_rx_of_slot(c) ==
    IF c.engine # None
    THEN [ret |-> c.engine.val.shutdown_rx, components |-> [c EXCEPT !.engine = None]]
    ELSE [ret |-> DefaultRx, components |-> c]

\* faulty variant: an empty engine slot is filled with a default engine
engine_shutdown_rx_of_install(c) ==
    IF c.engine # None
    THEN LET t == mem_take(c.engine.val.shutdown_rx) IN
         [ret |-> t.ret,
          components |-> [c EXCEPT !.engine = Some([c.engine.val EXCEPT !.shutdown_rx = t.left])]]
    ELSE [ret |-> DefaultRx,
          components |-> [c EXCEPT !.engine = Some([id |-> 0, shutdown_rx |-> DefaultRx])]]

engine_shutdown_rx_of(c) ==
    IF c.engine # None
    THEN LET t == mem_take(c.engine.val.shutdown_rx) IN
         [ret |-> t.ret,
          components |-> [c EXCEPT !.engine = Some([c.engine.val EXCEPT !.shutdown_rx = t.left])]]
    ELSE [ret |-> DefaultRx, components |-> c]

engine_shutdown_rx ==
    /\ CallerMay
    /\ Len(rxlog) < MaxRxCalls
    /\ LET r == engine_shutdown_rx_of(components) IN
        /\ components' = r.components
        /\ rxlog' = Append(rxlog, r.ret)
    /\ UNCHANGED <<stageVars, ctx, futures, pc, result, registered, invoked, completed>>
    /\ UNCHANGED <<cmdVars, poolVars>>

\* ------------------------------------------------------------ specification
Next ==
    \/ \E b \in 1..MaxHooks : Set_pipeline_builder(b)
    \/ \E b \in 1..MaxHooks : Set_engine_builder(b)
    \/ \E b \in 1..MaxHooks : Set_rpc_builder(b)
    \/ \E b \in CtxBuilders : Set_ctx_builder(b)
    \/ \E h \in 101..(100 + MaxAddOns) : on_rpc_started(h)
    \/ \E by \in {"caller", "driver"} : build_pipeline(by)
    \/ \E by \in {"caller", "driver"} : build_engine(by)
    \/ \E by \in {"caller", "driver"} : build_rpc(by)
    \/ \E ok \in BOOLEAN : on_event(ok)
    \/ \E f \in futures : await(f)
    \/ engine_shutdown_rx
    \/ DriverStart

Spec == Init /\ [][Next]_vars

\* a step of build() once the stage has been moved into it: a build_X call, the
\* on_event it makes, or the await of the returned future
DriverStep ==
    \/ \E X \in StageSet : BuildX(X, "driver")
    \/ ctx # None /\ ctx.val.by = "driver" /\ \E ok \in BOOLEAN : on_event(ok)
    \/ \E f \in futures : f.by = "driver" /\ await(f)

\* build() is polled until it returns and the futures it awaits resolve
FairSpec == Spec /\ WF_vars(DriverStep)

\* ------------------------------------------------------- drop-stage command
\* Command::execute is a sequence of steps: the setup, the update transaction,
\* the listing of the snapshot directory and one delete_jar per stored file.
\* Every fallible call (`?`) either passes or makes execute return its error.

\* highest block the database has been synced to
MaxTip == 1
\* highest first block of a stored snapshot file
MaxBlock == 3
\* reth_primitives::snapshot::BLOCKS_PER_SNAPSHOT, scaled down
BLOCKS_PER_SNAPSHOT == 2

\* the values of StageEnum named by the two matches of execute
StageEnum ==
    {"Headers", "Bodies", "Senders", "Execution", "AccountHashing",
     "StorageHashing", "Hashing", "Merkle", "AccountHistory", "StorageHistory",
     "TotalDifficulty", "TxLookup"}

\* the StageId keys of the SyncStage table
StageIdSet ==
    {"Headers", "Bodies", "SenderRecovery", "Execution", "AccountHashing",
     "StorageHashing", "MerkleExecute", "MerkleUnwind", "IndexAccountHistory",
     "IndexStorageHistory", "TotalDifficulty", "TransactionLookup", "Finish"}

\* the tables the command clears or re-seeds
TableSet ==
    {"BlockBodyIndices", "Transactions", "TransactionBlock", "BlockOmmers",
     "BlockWithdrawals", "TxSenders", "PlainAccountState", "PlainStorageState",
     "AccountChangeSet", "StorageChangeSet", "Bytecodes", "Receipts",
     "HashedAccount", "HashedStorage", "AccountsTrie", "StoragesTrie",
     "AccountHistory", "StorageHistory", "HeaderTD", "TxHashNumber",
     "HeaderNumbers"}

SnapshotSegment == {"Headers", "Transactions", "Receipts"}

\* StageCheckpoint::default()
DefaultCheckpoint == [block_number |-> 0]

\* the key of the rows derived from the genesis block; synced rows are keyed
\* by their block 1..tip
GenesisRow == [block |-> 0]

\* the tables insert_genesis_header and insert_genesis_state write a row to
GenesisHeaderTables == {"HeaderNumbers", "BlockBodyIndices"}
GenesisStateTables == {"PlainAccountState", "PlainStorageState", "Bytecodes"}

\* tx.clear::<T>() for every T in Ts
clear(d, Ts) ==
    [d EXCEPT !.tables = [T \in TableSet |-> IF T \in Ts THEN {} ELSE d.tables[T]]]

\* tx.put::<tables::SyncStage>(id, Default::default()) for every id in ids
put_SyncStage(d, ids) ==
    [d EXCEPT !.sync_stage =
        [id \in StageIdSet |-> IF id \in ids THEN DefaultCheckpoint ELSE d.sync_stage[id]]]

\* tx.delete::<tables::SyncStageProgress>(id, None)
delete_SyncStageProgress(d, id) == [d EXCEPT !.progress = @ \ {id}]

\* tx.put of the genesis-derived row into every table of Ts
put_genesis(d, Ts) ==
    [d EXCEPT !.tables =
        [T \in TableSet |-> IF T \in Ts THEN d.tables[T] \cup {GenesisRow} ELSE d.tables[T]]]

insert_genesis_header(d) == put_genesis(d, GenesisHeaderTables)

insert_genesis_state(d) == put_genesis(d, GenesisStateTables)

\* the stages with an arm of their own in the match of the update closure
ResetArms == StageEnum \ {"Headers"}

\* the fallible calls of the update closure
Clear(T) == [op |-> "clear", arg |-> T]
Put(id) == [op |-> "put", arg |-> id]
Delete(id) == [op |-> "delete", arg |-> id]
InsertGenesisHeader == [op |-> "insert_genesis_header", arg |-> "chain"]
InsertGenesisState == [op |-> "insert_genesis_state", arg |-> "chain"]

\* the calls of the arm of `match self.stage` taken for a stage of ResetArms,
\* in the order of the source
arm_ops(stage) ==
    CASE stage = "Bodies" ->
            <<Clear("BlockBodyIndices"), Clear("Transactions"), Clear("TransactionBlock"),
              Clear("BlockOmmers"), Clear("BlockWithdrawals"), Put("Bodies"),
              InsertGenesisHeader>>
      [] stage = "Senders" ->
            <<Clear("TxSenders"), Put("SenderRecovery")>>
      [] stage = "Execution" ->
            <<Clear("PlainAccountState"), Clear("PlainStorageState"),
              Clear("AccountChangeSet"), Clear("StorageChangeSet"), Clear("Bytecodes"),
              Clear("Receipts"), Put("Execution"), InsertGenesisState>>
      [] stage = "AccountHashing" ->
            <<Clear("HashedAccount"), Put("AccountHashing")>>
      [] stage = "StorageHashing" ->
            <<Clear("HashedStorage"), Put("StorageHashing")>>
      [] stage = "Hashing" ->
            <<Clear("HashedAccount"), Put("AccountHashing"),
              Clear("HashedStorage"), Put("StorageHashing")>>
      [] stage = "Merkle" ->
            <<Clear("AccountsTrie"), Clear("StoragesTrie"), Put("MerkleExecute"),
              Put("MerkleUnwind"), Delete("MerkleExecute")>>
      [] stage \in {"AccountHistory", "StorageHistory"} ->
            <<Clear("AccountHistory"), Clear("StorageHistory"),
              Put("IndexAccountHistory"), Put("IndexStorageHistory")>>
      [] stage = "TotalDifficulty" ->
            <<Clear("HeaderTD"), Put("TotalDifficulty"), InsertGenesisHeader>>
      [] stage = "TxLookup" ->
            <<Clear("TxHashNumber"), Put("TransactionLookup"), InsertGenesisHeader>>

\* the effect of one call of the closure on the open transaction
apply(d, o) ==
    CASE o.op = "clear" -> clear(d, {o.arg})
      [] o.op = "put" -> put_SyncStage(d, {o.arg})
      [] o.op = "delete" -> delete_SyncStageProgress(d, o.arg)
      [] o.op = "insert_genesis_header" -> insert_genesis_header(d)
      [] o.op = "insert_genesis_state" -> insert_genesis_state(d)

\* the first n calls of ops, one after the other
RECURSIVE run(_, _, _)
run(d, ops, n) ==
    IF n = 0 THEN d ELSE apply(run(d, ops, n - 1), ops[n])

\* the arm of `match self.stage` taken for a stage of ResetArms, every call
\* passing
reset_arm(stage, d) == run(d, arm_ops(stage), Len(arm_ops(stage)))

\* the message of info!("Nothing to do for stage {:?}", self.stage)
NothingToDo(stage) == [msg |-> "Nothing to do for stage", stage |-> stage]

\* the fallible calls the closure makes for a stage: the arm of the stage and
\* then the put of the Finish checkpoint; the `_` arm makes none
closure_ops(stage) ==
    IF stage \in ResetArms THEN arm_ops(stage) \o <<Put("Finish")>> ELSE <<>>

\* the error a failing call returns
CallError(call, k) == [call |-> call, at |-> k]

\* the closure given to db_ref().update, run on the transaction state d with
\* its k-th fallible call failing (k = 0: none fails): the calls before the
\* failing one have written, the `?` returns the error; the `_` arm logs and
\* returns Ok(()) from the closure
update_closure(stage, d, k) ==
    LET ops == closure_ops(stage)
    IN [db |-> run(d, ops, IF k = 0 THEN Len(ops) ELSE k - 1),
        log |-> IF stage \in ResetArms THEN <<>> ELSE <<NothingToDo(stage)>>,
        res |-> IF k = 0 THEN Ok("unit") ELSE Err(CallError(ops[k].op, k))]

\* Database::update(f): open a write transaction, run f on it, commit, return
\* Ok(f's result); the transaction is committed whatever f returned.  at is
\* the call of update that fails, if one does.
Database_update(d, stage, at, k) ==
    IF at = "tx_mut"
    THEN [db |-> d, log |-> <<>>, res |-> Err(CallError("tx_mut", 0))]
    ELSE LET u == update_closure(stage, d, k)
         IN IF at = "commit"
            THEN [db |-> d, log |-> u.log, res |-> Err(CallError("commit", 0))]
            ELSE [db |-> u.db, log |-> u.log, res |-> Ok(u.res)]

\* `let snapshot_segment = match self.stage`
\* faulty variant: the Bodies stage mapped to the Receipts segment
snapshot_segment_swapped(stage) ==
    CASE stage = "Headers" -> Some("Headers")
      [] stage = "Bodies" -> Some("Receipts")
      [] stage = "Execution" -> Some("Receipts")
      [] OTHER -> None

snapshot_segment(stage) ==
    CASE stage = "Headers" -> Some("Headers")
      [] stage = "Bodies" -> Some("Transactions")
      [] stage = "Execution" -> Some("Receipts")
      [] OTHER -> None

\* find_fixed_range: the fixed-size range of blocks that holds a block
find_fixed_range(block) ==
    LET start == (block \div BLOCKS_PER_SNAPSHOT) * BLOCKS_PER_SNAPSHOT
    IN [start |-> start, end |-> start + BLOCKS_PER_SNAPSHOT - 1]

\* the numbers of S in ascending order
RECURSIVE sorted(_)
sorted(S) ==
    IF S = {} THEN <<>>
    ELSE LET m == CHOOSE x \in S : \A y \in S : x <= y
         IN <<m>> \o sorted(S \ {m})

\* iter_snapshots(dir).get(segment): the block ranges of the stored files of
\* a segment, sorted by their first block
iter_snapshots(files, segment) ==
    LET firsts == sorted({f.first : f \in {g \in files : g.segment = segment}})
    IN [i \in DOMAIN firsts |-> [start |-> firsts[i]]]

\* SnapshotProvider::delete_jar: the file of the segment for a fixed range
delete_jar(files, segment, range) ==
    {f \in files : ~(f.segment = segment /\ find_fixed_range(f.first) = range)}

\* the ext.rs stage and the txpool namespace are not part of the command
CmdFrame ==
    /\ UNCHANGED <<self_stage, poolVars>>
    /\ UNCHANGED <<components, stageVars, ctx, futures, pc, result, histVars>>

\* execute returns r
Return(r) ==
    /\ ret' = Some(r)
    /\ cmd_pc' = "done"

\* the calls of the setup
SetupCalls == {"create_dir_all", "open_db", "ProviderFactory::new", "DbTool::new"}

\* execute up to DbTool::new: the data directory is created and the database
\* opened; fault is the call that fails, if one does
execute_setup(fault) ==
    /\ cmd_pc = "setup"
    /\ IF fault \in SetupCalls
       THEN Return(Err(CallError(fault, 0)))
       ELSE cmd_pc' = "update" /\ UNCHANGED ret
    /\ UNCHANGED <<db, snapshots, log, deleted, segment_snapshots>>
    /\ CmdFrame

\* tool.provider_factory.db_ref().update(|tx| { .. })??
execute_update(at, k) ==
    /\ cmd_pc = "update"
    /\ at = "closure" <=> k > 0
    /\ k <= Len(closure_ops(self_stage.val))
    /\ LET u == Database_update(db, self_stage.val, at, k)
       IN /\ db' = u.db
          /\ log' = log \o u.log
          /\ IF u.res.kind = "Err" THEN Return(u.res)
             ELSE IF u.res.value.kind = "Err" THEN Return(u.res.value)
             ELSE cmd_pc' = "snapshots" /\ UNCHANGED ret
    /\ UNCHANGED <<snapshots, deleted, segment_snapshots>>
    /\ CmdFrame

\* the match on the stage's segment and `iter_snapshots(..)?`; with no segment,
\* or no stored file of the segment, execute returns Ok(())
execute_iter_snapshots(ok) ==
    /\ cmd_pc = "snapshots"
    /\ LET seg == snapshot_segment(self_stage.val)
       IN IF seg = None
          THEN Return(Ok("unit")) /\ UNCHANGED segment_snapshots
          ELSE IF ~ok
          THEN Return(Err(CallError("iter_snapshots", 0))) /\ UNCHANGED segment_snapshots
          ELSE LET ranges == iter_snapshots(snapshots, seg.val)
               IN IF ranges = <<>>
                  THEN Return(Ok("unit")) /\ UNCHANGED segment_snapshots
                  ELSE /\ segment_snapshots' = ranges
                       /\ cmd_pc' = "delete"
                       /\ UNCHANGED ret
    /\ UNCHANGED <<db, snapshots, log, deleted>>
    /\ CmdFrame

\* one turn of `for (block_range, _) in segment_snapshots { delete_jar(..)? }`;
\* after the last turn execute returns Ok(())
execute_delete_jar(ok) ==
    /\ cmd_pc = "delete"
    /\ IF ~ok
       THEN /\ Return(Err(CallError("delete_jar", 0)))
            /\ UNCHANGED <<snapshots, deleted, segment_snapshots>>
       ELSE /\ snapshots' = delete_jar(snapshots, snapshot_segment(self_stage.val).val,
                                       find_fixed_range(Head(segment_snapshots).start))
            /\ deleted' = deleted \cup (snapshots \ snapshots')
            /\ segment_snapshots' = Tail(segment_snapshots)
            /\ IF Tail(segment_snapshots) = <<>>
               THEN Return(Ok("unit"))
               ELSE UNCHANGED <<cmd_pc, ret>>
    /\ UNCHANGED <<db, log>>
    /\ CmdFrame

\* Command::execute
execute ==
    \/ \E fault \in SetupCalls \cup {"none"} : execute_setup(fault)
    \/ \E at \in {"none", "tx_mut", "closure", "commit"} :
          \E k \in 0..Len(closure_ops(self_stage.val)) : execute_update(at, k)
    \/ \E ok \in BOOLEAN : execute_iter_snapshots(ok)
    \/ \E ok \in BOOLEAN : execute_delete_jar(ok)

\* a database synced to block tip, with or without a saved merkle progress
SyncedDb(tip, merkle) ==
    [tables |-> [T \in TableSet |->
                    (IF T \in GenesisHeaderTables \cup GenesisStateTables
                     THEN {GenesisRow} ELSE {})
                    \cup {[block |-> b] : b \in 1..tip}],
     sync_stage |-> [id \in StageIdSet |-> [block_number |-> tip]],
     progress |-> IF merkle THEN {"MerkleExecute"} ELSE {}]

\* the sets of snapshot files a directory can hold: at most one file of a
\* segment for each fixed range
SnapshotDirs ==
    {fs \in SUBSET [segment : SnapshotSegment, first : 0..MaxBlock] :
        \A f, g \in fs :
            (f.segment = g.segment /\ find_fixed_range(f.first) = find_fixed_range(g.first))
                => f = g}

\* the command is started with any stage on any such database and directory
InitDrop ==
    /\ StageInit("build_ctx")
    /\ PoolOff
    /\ self_stage \in {Some(s) : s \in StageEnum}
    /\ db \in {SyncedDb(tip, m) : tip \in 0..MaxTip, m \in BOOLEAN}
    /\ snapshots \in SnapshotDirs
    /\ log = <<>>
    /\ ret = None
    /\ deleted = {}
    /\ cmd_pc = "setup"
    /\ segment_snapshots = <<>>

NextDrop == execute

SpecDrop == InitDrop /\ [][NextDrop]_vars

\* -------------------------------------------------------- txpool namespace
\* number of transactions in one sub-pool
MaxTxs == 2
\* number of changes of the pool
MaxPoolEvents == 3
\* highest nonce of a pooled transaction
MaxNonce == 10

Senders == {"0xa1", "0xa2"}
NonceSet == {0, 1, MaxNonce}

Digits == <<"0", "1", "2", "3", "4", "5", "6", "7", "8", "9">>

\* u64::to_string: the decimal rendering, as the sequence of its characters
RECURSIVE to_string(_)
to_string(n) ==
    IF n < 10 THEN <<Digits[n + 1]>>
    ELSE to_string(n \div 10) \o <<Digits[(n % 10) + 1]>>

\* BTreeMap::default()
EmptyMap == [k \in {} |-> k]

\* BTreeMap::insert: the value under key k is set, replacing an old one
BTreeMap_insert(m, k, v) == [x \in DOMAIN m \cup {k} |-> IF x = k THEN v ELSE m[x]]

\* the reply object of a pooled transaction
from_recovered(tx) == [hash |-> tx.hash, from |-> tx.sender, nonce |-> tx.nonce]

\* the inner fn insert of content():
\*   content.entry(tx.sender()).or_default().insert(tx.nonce().to_string(), ..)
\* faulty variant: the sender's map is replaced by one holding only this entry
insert_replace(tx, content) ==
    BTreeMap_insert(content, tx.sender,
        BTreeMap_insert(EmptyMap, to_string(tx.nonce), from_recovered(tx)))

insert(tx, content) ==
    LET inner == IF tx.sender \in DOMAIN content THEN content[tx.sender] ELSE EmptyMap
    IN BTreeMap_insert(content, tx.sender,
           BTreeMap_insert(inner, to_string(tx.nonce), from_recovered(tx)))

\* `for tx in list { insert(&tx.transaction, &mut content, ..) }`
RECURSIVE insert_all(_, _)
insert_all(list, content) ==
    IF list = <<>> THEN content
    ELSE insert_all(Tail(list), insert(Head(list), content))

\* EthTxPoolApi::content
content(snapshot) ==
    [pending |-> insert_all(snapshot.pending, EmptyMap),
     queued |-> insert_all(snapshot.queued, EmptyMap)]

\* the TxpoolStatus built by the handler of txpool_status
TxpoolStatus_of(snapshot) ==
    [pending |-> Len(snapshot.pending), queued |-> Len(snapshot.queued)]

\* the state of the ext.rs stage and of the drop-stage command is not part of
\* the txpool namespace
PoolFrame ==
    /\ UNCHANGED cmdVars
    /\ UNCHANGED <<components, stageVars, ctx, futures, pc, result, histVars>>

\* TransactionPool::all_transactions: one atomic snapshot of the pool as it is
\* at the call
all_transactions == pool

\* handler of txpool_status: it takes its own snapshot of the pool
txpool_status ==
    /\ all' = Some(all_transactions)
    /\ status_reply' = Some(Ok(TxpoolStatus_of(all_transactions)))
    /\ UNCHANGED <<pool, pool_events, all_content, content_reply>>
    /\ PoolFrame

\* handler of txpool_content: Ok(self.content()), which takes its own snapshot
txpool_content ==
    /\ all_content' = Some(all_transactions)
    /\ content_reply' = Some(Ok(content(all_transactions)))
    /\ UNCHANGED <<pool, pool_events, all, status_reply>>
    /\ PoolFrame

SubPools == {"pending", "queued"}

\* the list of sub-pool sub set to list
WithList(p, sub, list) ==
    IF sub = "pending" THEN [p EXCEPT !.pending = list] ELSE [p EXCEPT !.queued = list]

\* the list without its i-th element
RemoveAt(list, i) == SubSeq(list, 1, i - 1) \o SubSeq(list, i + 1, Len(list))

\* the pool changes between two calls of a handler
PoolChange(p) ==
    /\ pool_events < MaxPoolEvents
    /\ pool' = p
    /\ pool_events' = pool_events + 1
    /\ UNCHANGED <<all, all_content, status_reply, content_reply>>
    /\ PoolFrame

\* a transaction enters a sub-pool
pool_add(sub, sender, nonce) ==
    /\ Len(pool[sub]) < MaxTxs
    /\ PoolChange(WithList(pool, sub,
            Append(pool[sub], [sender |-> sender, nonce |-> nonce, hash |-> pool_events + 1])))

\* a transaction leaves a sub-pool: mined, replaced or evicted
pool_remove(sub, i) ==
    /\ i \in DOMAIN pool[sub]
    /\ PoolChange(WithList(pool, sub, RemoveAt(pool[sub], i)))

\* the first queued transaction becomes pending
pool_promote ==
    /\ pool.queued # <<>>
    /\ Len(pool.pending) < MaxTxs
    /\ PoolChange([pending |-> Append(pool.pending, Head(pool.queued)),
                   queued |-> Tail(pool.queued)])

\* a node starts with an empty pool and no handler served
InitPool ==
    /\ StageInit("build_ctx")
    /\ CmdOff
    /\ PoolOff

NextPool ==
    \/ txpool_status
    \/ txpool_content
    \/ \E sub \in SubPools, sender \in Senders, nonce \in NonceSet : pool_add(sub, sender, nonce)
    \/ \E sub \in SubPools, i \in 1..MaxTxs : pool_remove(sub, i)
    \/ pool_promote

SpecPool == InitPool /\ [][NextPool]_vars

\* ------------------------------------------------------------- properties
\* the hook invocations made by the build driver, in order
DriverInvoked == SelectSeq(invoked, LAMBDA e : e.by = "driver")

\* the number of invocations / registrations for stage X
InvokedFor(X) == Cardinality({i \in DOMAIN invoked : invoked[i].stage = X})
RegisteredFor(X) == Cardinality({i \in DOMAIN registered : registered[i].slot = X})

\* the awaited driver futures that failed
DriverFailures == {c \in completed : c.by = "driver" /\ c.res.kind = "Err"}

\* C1: in one run of build() the hooks are invoked in the order pipeline,
\* engine, rpc, whatever the order of the registrations: a later driver
\* invocation is always of a strictly later stage.
C1_DriverOrder ==
    \A i, j \in DOMAIN DriverInvoked :
        i < j => Rank(DriverInvoked[i].stage) < Rank(DriverInvoked[j].stage)

\* the driver invoked two hooks in stage order that were registered in the
\* opposite order, the rpc hook first and then the pipeline hook
C1_Witness ==
    /\ Len(DriverInvoked) = 2
    /\ Len(registered) = 2
    /\ registered[1].slot = "rpc"
    /\ registered[2].slot = "pipeline"

\* a step that invokes a hook for stage X
Invokes(X) ==
    /\ Len(invoked') = Len(invoked) + 1
    /\ invoked'[Len(invoked')].stage = X

\* C2: a registered hook is invoked at most once: the build_X call that
\* invokes it leaves the slot empty, and while the slot is empty (no new
\* registration) no step invokes a hook for that stage or creates a context.
C2_AtMostOnce ==
    [][/\ \A i, j \in DOMAIN invoked' : i # j => invoked'[i].hook # invoked'[j].hook
       /\ \A X \in StageSet :
            /\ Invokes(X) => Builder(X) # None /\ Builder(X)' = None
            /\ (Builder(X) = None /\ Builder(X)' = None) => ~Invokes(X)
            /\ (Builder(X) = None /\ pc = X /\ ctx = None) =>
                    (ctx' = None /\ invoked' = invoked)]_vars

\* the caller ran build_pipeline, and the driver's own build_pipeline then
\* found the slot empty and went on to the engine stage
C2_Witness ==
    /\ pc = "engine"
    /\ RegisteredFor("pipeline") = 1
    /\ InvokedFor("pipeline") = 1
    /\ \E i \in DOMAIN invoked : invoked[i].stage = "pipeline" /\ invoked[i].by = "caller"

\* C3: when a hook fails in the driver, the build is Failed with that hook's
\* error as its result, and the failed hook is the last hook ever invoked:
\* no hook of a later stage is invoked after it.
C3_FailureStops ==
    \A c \in DriverFailures :
        /\ pc = "failed"
        /\ result = Some(c.res)
        /\ invoked[Len(invoked)].hook = c.hook
        /\ \A i \in DOMAIN DriverInvoked : Rank(DriverInvoked[i].stage) <= Rank(c.stage)

\* the pipeline hook failed in the driver while an engine hook was registered,
\* which is still in its slot
C3_Witness ==
    /\ \E c \in DriverFailures : c.stage = "pipeline"
    /\ engine_builder # None

\* C4: with no pipeline, engine or rpc hook registered, the build invokes no
\* hook, never fails, and completes with Ok and all three slots empty.
C4_NoHooks ==
    (registered = <<>> /\ pc \notin {"idle"}) =>
        /\ invoked = <<>>
        /\ pc # "failed"
        /\ pc = "complete" => result = Some(Ok(components.core))
        /\ components.pipeline = None
        /\ components.engine = None
        /\ components.rpc = None

\* a completed build of a stage on which no primary hook was ever registered
C4_Witness == registered = <<>> /\ pc = "complete" /\ result = Some(Ok("node"))

\* the post-start hooks that have been run, in order
PostStartRuns ==
    LET runs == SelectSeq(invoked, LAMBDA e : e.stage = "rpc_started")
    IN [i \in DOMAIN runs |-> runs[i].hook]

\* the driver's rpc stage has succeeded and build() has returned
RpcStageSucceeded ==
    /\ pc = "complete"
    /\ \E c \in completed : c.by = "driver" /\ c.stage = "rpc" /\ c.res.kind = "Ok"

\* C5: once the rpc stage of a build has succeeded, every post-start hook
\* registered with on_rpc_started has been run, in registration order.
C5_PostStartRun == RpcStageSucceeded => PostStartRuns = rpc_add_ons

\* C6: the engine shutdown receiver is handed out at most once: every
\* engine_shutdown_rx call after the one that returned the receiver returns
\* the default, and once the receiver was returned the engine's stored
\* receiver reads as the default.
C6_RxOnce ==
    /\ \A i, j \in DOMAIN rxlog : (i < j /\ rxlog[i] # DefaultRx) => rxlog[j] = DefaultRx
    /\ (\E i \in DOMAIN rxlog : rxlog[i] # DefaultRx) =>
            /\ components.engine # None
            /\ components.engine.val.shutdown_rx = DefaultRx

\* the receiver was taken by one call and a later call got the default
C6_Witness ==
    /\ Len(rxlog) = 2
    /\ rxlog[1] # DefaultRx
    /\ rxlog[2] = DefaultRx

\* C7: build() returns nothing before it ends, Ok(the core node handle) when
\* it completes, in which case no driver hook failed, and otherwise the error
\* of the one driver hook that failed, a value that holds no component set.
C7_ResultShape ==
    /\ pc \notin {"complete", "failed"} => result = None
    /\ pc = "complete" => result = Some(Ok(components.core)) /\ DriverFailures = {}
    /\ pc = "failed" =>
            /\ Cardinality(DriverFailures) = 1
            /\ \A c \in DriverFailures : result = Some(Err(c.res.error))
            /\ DOMAIN result.val = {"kind", "error"}

\* a build that failed after an earlier stage of the same build had succeeded
C7_Witness ==
    /\ pc = "failed"
    /\ \E c \in completed : c.by = "driver" /\ c.res.kind = "Ok"
    /\ \E X \in StageSet : Slot(components, X) # None

\* the stage names that occur in the context chain of an error
StagesNamedBy(error) == {error[i] : i \in DOMAIN error} \cap StageSet

\* C8: the failure returned by a failed build names the stage whose hook failed.
C8_ErrorNamesStage ==
    pc = "failed" =>
        \A c \in DriverFailures : StagesNamedBy(result.val.error) = {c.stage}

\* the component held by slot X, None while the slot is empty
SlotId(c, X) == IF Slot(c, X) = None THEN None ELSE Some(Slot(c, X).val.id)

\* C9: a filled slot stays filled with the same component in every step; the
\* pipeline and rpc components are left as they are, the engine component may
\* only have its shutdown receiver taken.
C9_SlotsKept ==
    [][\A X \in StageSet :
          Slot(components, X) # None =>
              /\ SlotId(components', X) = SlotId(components, X)
              /\ X # "engine" => Slot(components', X) = Slot(components, X)]_vars

\* the engine slot holds the first engine although its receiver was taken and
\* a second engine hook has succeeded since
C9_Witness ==
    /\ components.engine # None
    /\ components.engine.val.shutdown_rx = DefaultRx
    /\ \E c \in completed :
          c.stage = "engine" /\ c.res.kind = "Ok" /\ c.hook # components.engine.val.id

\* C10: for each of the three slots the total number of hook executions is
\* 0 or 1, whatever is registered on the slot after its hook has executed.
C10_OncePerSlot == \A X \in StageSet : InvokedFor(X) <= 1

\* the command runs for a stage with no arm of its own in the update closure
Unmatched == self_stage # None /\ self_stage.val \notin ResetArms

\* C11: the command run for a stage without a reset arm (Headers) performs
\* no action: no step changes the database with its tables and checkpoints,
\* no step removes a snapshot file, and when it returns Ok it has logged
\* "nothing to do".
C11_NoAction ==
    /\ [][Unmatched => (db' = db /\ snapshots' = snapshots)]_vars
    /\ [](Unmatched /\ ret = Some(Ok("unit")) => log = <<NothingToDo(self_stage.val)>>)

\* the SyncStage key of a history stage
HistoryStageId(stage) ==
    IF stage = "AccountHistory" THEN "IndexAccountHistory" ELSE "IndexStorageHistory"

\* C12: the command that has returned Ok for AccountHistory or StorageHistory
\* has left the stage's primary table cleared of every synced row and holding the
\* re-inserted genesis-derived row, the stage's checkpoint at the default and
\* the Finish checkpoint at the default.
C12_HistoryReset ==
    (/\ ret = Some(Ok("unit"))
     /\ self_stage.val \in {"AccountHistory", "StorageHistory"}) =>
        /\ db.tables[self_stage.val] = {GenesisRow}
        /\ db.sync_stage[HistoryStageId(self_stage.val)] = DefaultCheckpoint
        /\ db.sync_stage["Finish"] = DefaultCheckpoint

\* (sender, nonce) pairs are unique within a list
UniqueKeys(list) ==
    \A i, j \in DOMAIN list :
        (list[i].sender = list[j].sender /\ list[i].nonce = list[j].nonce) => i = j

\* the number a string of decimal digits denotes
RECURSIVE DecimalValue(_)
DecimalValue(str) ==
    IF str = <<>> THEN 0
    ELSE 10 * DecimalValue(SubSeq(str, 1, Len(str) - 1))
         + (CHOOSE d \in 0..9 : Digits[d + 1] = str[Len(str)])

\* a canonical decimal string: digits only, no leading zero
IsDecimal(str) ==
    /\ Len(str) >= 1
    /\ \A i \in DOMAIN str : \E d \in 0..9 : Digits[d + 1] = str[i]
    /\ Len(str) > 1 => str[1] # "0"

\* the (sender, key) positions of a content map
Entries(m) == UNION {{<<a, k>> : k \in DOMAIN m[a]} : a \in DOMAIN m}

\* a content map holds each transaction of a list exactly once, under its
\* sender and under its nonce in decimal, and nothing else
HoldsExactly(m, list) ==
    /\ Cardinality(Entries(m)) = Len(list)
    /\ \A i \in DOMAIN list :
          LET at == {e \in Entries(m) : m[e[1]][e[2]] = from_recovered(list[i])}
          IN /\ Cardinality(at) = 1
             /\ \A e \in at :
                   /\ e[1] = list[i].sender
                   /\ IsDecimal(e[2])
                   /\ DecimalValue(e[2]) = list[i].nonce

\* (sender, nonce) pairs are unique within each list of a snapshot
UniqueSnapshot(snapshot) ==
    UniqueKeys(snapshot.pending) /\ UniqueKeys(snapshot.queued)

\* C13: each handler answers for the snapshot of the pool it takes at its
\* call; for a snapshot with unique (sender, nonce) pairs within each list,
\* txpool_status reports the lengths of the two lists and txpool_content
\* holds every transaction of a list exactly once, under its sender and then
\* its nonce in decimal, so for one such snapshot the number of content
\* entries of each sub-pool is the status count.
C13_StatusContent ==
    /\ [][/\ all' # all => all' = Some(pool)
          /\ all_content' # all_content => all_content' = Some(pool)]_vars
    /\ []((all # None /\ UniqueSnapshot(all.val)) =>
              status_reply = Some(Ok([pending |-> Len(all.val.pending),
                                      queued |-> Len(all.val.queued)])))
    /\ []((all_content # None /\ UniqueSnapshot(all_content.val)) =>
              /\ content_reply # None
              /\ content_reply.val.kind = "Ok"
              /\ HoldsExactly(content_reply.val.value.pending, all_content.val.pending)
              /\ HoldsExactly(content_reply.val.value.queued, all_content.val.queued))
    /\ []((all # None /\ all_content = all /\ UniqueSnapshot(all.val)) =>
              /\ Cardinality(Entries(content_reply.val.value.pending))
                    = status_reply.val.value.pending
              /\ Cardinality(Entries(content_reply.val.value.queued))
                    = status_reply.val.value.queued)

\* both handlers have replied for one snapshot of a pool whose pending list
\* holds two transactions of one sender, one of them with a two-digit nonce,
\* and whose queued list holds one transaction
C13_Witness ==
    /\ status_reply # None
    /\ content_reply # None
    /\ all = all_content
    /\ all = Some(pool)
    /\ UniqueSnapshot(all.val)
    /\ Len(all.val.pending) = 2
    /\ Len(all.val.queued) = 1
    /\ all.val.pending[1].sender = all.val.pending[2].sender
    /\ all.val.pending[1].nonce = 1
    /\ all.val.pending[2].nonce >= 10
    /\ Len(to_string(all.val.pending[2].nonce)) = 2

\* the hooks whose future has been awaited
CompletedHooks == {c.hook : c \in completed}

\* the driver's hooks in progress: invoked and not yet completed
DriverInProgress ==
    {i \in DOMAIN invoked : invoked[i].by = "driver" /\ invoked[i].hook \notin CompletedHooks}

\* C14: the driver's hooks never overlap: at most one hook invoked by the
\* driver is in progress, and whenever the driver has taken and invoked the
\* hook of a later stage, every hook it invoked before has completed.
C14_NoOverlap ==
    /\ Cardinality(DriverInProgress) <= 1
    /\ \A i, j \in DOMAIN invoked :
          (i < j /\ invoked[i].by = "driver" /\ invoked[j].by = "driver") =>
              invoked[i].hook \in CompletedHooks

\* the driver's second hook runs with its context after its first hook has
\* completed
C14_Witness ==
    /\ Len(DriverInvoked) = 2
    /\ ctx # None
    /\ ctx.val.by = "driver"
    /\ DriverInvoked[1].hook \in CompletedHooks

\* C15: the context a hook runs with shows the container as it is now and
\* the core's left attachment, so every slot filled by a hook that has
\* completed successfully is filled in the view.
C15_CtxCurrent ==
    ctx # None =>
        /\ ctx.val.context.attachment.right = components
        /\ ctx.val.context.attachment.left = core_ctx.attachment.left
        /\ \A c \in completed :
              c.res.kind = "Ok" => Slot(ctx.val.context.attachment.right, c.stage) # None

\* the driver's rpc hook runs with a context that shows the pipeline and
\* engine components written by the driver's pipeline and engine hooks, which
\* completed earlier in the same build
C15_Witness ==
    /\ ctx # None
    /\ ctx.val.by = "driver"
    /\ ctx.val.stage = "rpc"
    /\ ctx.val.context.attachment.right.pipeline # None
    /\ ctx.val.context.attachment.right.engine # None
    /\ components.rpc = None
    /\ \E c \in completed : c.by = "driver" /\ c.stage = "pipeline" /\ c.res.kind = "Ok"
    /\ \E c \in completed : c.by = "driver" /\ c.stage = "engine" /\ c.res.kind = "Ok"

\* C16: at most one context is live at a time: while a context is live no
\* step derives another one, it stays the live context until its hook
\* returns, the container is written only through it, by its own hook, and
\* a returned future holds no context.
C16_OneContext ==
    [][/\ ctx # None =>
            /\ ctx' \in {ctx, None}
            /\ components' \in {components, HookWrite(components, ctx.val.stage, ctx.val.hook)}
       /\ (ctx' # None /\ ctx' # ctx) => ctx = None
       /\ \A f \in futures' : "context" \notin DOMAIN f]_vars

\* the caller is inside its second build_* call, with a live context, while
\* the future of its first call has not been awaited
C16_Witness ==
    /\ ctx # None
    /\ ctx.val.by = "caller"
    /\ \E f \in futures : f.by = "caller" /\ f.stage # ctx.val.stage
    /\ completed = {}

\* the position of build() after stage X
AfterStage(X) ==
    CASE X = "pipeline" -> "engine" [] X = "engine" -> "rpc" [] X = "rpc" -> "complete"

\* a step in which a caller awaits a future it kept from its own build_X call
CallerAwaits == \E f \in futures : f.by = "caller" /\ futures' = futures \ {f}

\* C17: a stage whose slot is empty is skipped in one step of the driver (the
\* only other step possible there is a caller awaiting a future it kept): the
\* driver moves to the next stage with no context derived, no hook invoked, no
\* future made and the container untouched; a slot for which no hook was ever
\* invoked is empty; a completed build has invoked a hook for every stage
\* with a registration; and a started build always ends, Complete unless a
\* hook of the driver has failed: a build that has left Idle never returns to
\* it, and it does not stay for ever short of Complete or a driver failure.
C17_SkipEmpty ==
    /\ [][\A X \in StageSet :
            (pc = X /\ Builder(X) = None /\ ctx = None /\ ~CallerAwaits) =>
                /\ pc' = AfterStage(X)
                /\ ctx' = None
                /\ UNCHANGED <<components, invoked, futures, completed, stageVars>>]_vars
    /\ [](\A X \in StageSet :
            /\ InvokedFor(X) = 0 => Slot(components, X) = None
            /\ (pc = "complete" /\ RegisteredFor(X) > 0) => InvokedFor(X) > 0)
    /\ [][pc # "idle" => pc' # "idle"]_vars
    /\ []<>(pc = "idle" \/ pc = "complete" \/ DriverFailures # {})

\* a build completed with only an engine hook registered: the engine hook
\* has run for the driver, the pipeline and rpc slots are empty
C17_Witness ==
    /\ pc = "complete"
    /\ RegisteredFor("pipeline") = 0
    /\ RegisteredFor("rpc") = 0
    /\ \E c \in completed : c.by = "driver" /\ c.stage = "engine" /\ c.res.kind = "Ok"
    /\ components.pipeline = None
    /\ components.rpc = None
    /\ components.engine # None

\* C18: an engine_shutdown_rx call made while the engine slot is empty
\* returns the default receiver and changes neither the container nor a hook
\* slot nor the post-start list; a call that returns a receiver other than
\* the default took it from the engine component present in the engine slot.
C18_EmptySlotDefault ==
    [][rxlog' # rxlog =>
          LET r == rxlog'[Len(rxlog')] IN
          /\ Len(rxlog') = Len(rxlog) + 1
          /\ components.engine = None =>
                /\ r = DefaultRx
                /\ components' = components
                /\ UNCHANGED stageVars
          /\ r # DefaultRx =>
                /\ components.engine # None
                /\ r = components.engine.val.shutdown_rx]_vars

\* engine_shutdown_rx has returned the default while the engine slot was
\* empty and an engine hook was waiting in its slot; the slot is still empty
\* and the hook still there
C18_Witness ==
    /\ Len(rxlog) = 1
    /\ rxlog[1] = DefaultRx
    /\ components.engine = None
    /\ engine_builder # None
    /\ invoked = <<>>

\* C19: the post-start list only grows, by the hook passed to on_rpc_started
\* put at its end: every step leaves the list as it is or appends one hook
\* that is not in it, so the i-th entry is the hook of the i-th registration
\* and no registration or build_* step removes or reorders an entry.
C19_Cumulative ==
    [][/\ \/ rpc_add_ons' = rpc_add_ons
          \/ /\ rpc_add_ons' = Append(rpc_add_ons, NextAddOn)
             /\ \A i \in DOMAIN rpc_add_ons : rpc_add_ons[i] # NextAddOn
             /\ UNCHANGED <<components, pipeline_builder, engine_builder, rpc_builder,
                            invoked>>
       /\ \A i \in DOMAIN rpc_add_ons' : rpc_add_ons'[i] = 100 + i]_vars

\* two post-start hooks were registered, the caller and the driver each ran
\* a hook, and the list holds both hooks in registration order after the
\* build completed
C19_Witness ==
    /\ rpc_add_ons = <<101, 102>>
    /\ pc = "complete"
    /\ \E i \in DOMAIN invoked : invoked[i].by = "caller"
    /\ \E i \in DOMAIN invoked : invoked[i].by = "driver"

\* the snapshot segments owned by a stage
OwnedSegments(stage) ==
    CASE stage = "Headers" -> {"Headers"}
      [] stage = "Bodies" -> {"Transactions"}
      [] stage = "Execution" -> {"Receipts"}
      [] OTHER -> {}

\* the stored files the command is to delete: those of the segment its stage
\* owns whose block range starts at or after the reset point, the default
\* checkpoint
ToDelete(stage, files) ==
    {f \in files : /\ f.segment \in OwnedSegments(stage)
                   /\ f.first >= DefaultCheckpoint.block_number}

\* C20: the command deletes only stored files of the segment its stage owns
\* (Headers: Headers, Bodies: Transactions, Execution: Receipts) whose block
\* range starts at or after the reset point; a file is deleted by the step
\* that takes it from the directory; when the command returns Ok every such
\* file is deleted; for a stage that owns no segment no file is deleted.
C20_SegmentFiles ==
    /\ [][/\ snapshots' \subseteq snapshots
          /\ deleted' = deleted \cup (snapshots \ snapshots')]_vars
    /\ [](self_stage # None =>
            /\ deleted \subseteq ToDelete(self_stage.val, deleted)
            /\ ret = Some(Ok("unit")) => ToDelete(self_stage.val, snapshots) = {}
            /\ OwnedSegments(self_stage.val) = {} => deleted = {})

\* the command has returned Ok for the Bodies stage after deleting two
\* Transactions files, one of them starting inside its fixed range, and has
\* left files of the other segments
C20_Witness ==
    /\ ret = Some(Ok("unit"))
    /\ self_stage = Some("Bodies")
    /\ Cardinality(deleted) = 2
    /\ \A f \in deleted : f.segment = "Transactions"
    /\ \E f \in deleted : find_fixed_range(f.first).start # f.first
    /\ \E f \in snapshots : f.segment = "Headers"
    /\ \E f \in snapshots : f.segment = "Receipts"

\* the hooks that have been invoked
InvokedHooks == {invoked[i].hook : i \in DOMAIN invoked}

\* C21: a hook is consumed by the build_X call that takes it, whatever its
\* outcome: a hook that sits in a slot has never been invoked, and a hook
\* that failed is not in its slot and has been invoked exactly once, so no
\* later build_X call, of the caller or of the driver, runs it again.
C21_FailedConsumed ==
    /\ \A X \in StageSet : Builder(X) # None => Builder(X).val \notin InvokedHooks
    /\ \A c \in completed :
          c.res.kind = "Err" =>
              /\ Builder(c.stage) # Some(c.hook)
              /\ Cardinality({i \in DOMAIN invoked : invoked[i].hook = c.hook}) = 1

\* the pipeline hook failed when the caller ran it, and the driver's own
\* build_pipeline then found the slot empty: the build completed with that
\* one invocation for the pipeline stage
C21_Witness ==
    /\ pc = "complete"
    /\ InvokedFor("pipeline") = 1
    /\ pipeline_builder = None
    /\ \E c \in completed :
          c.by = "caller" /\ c.stage = "pipeline" /\ c.res.kind = "Err"

\* the registrations made for stage X, in order
RegistrationsFor(X) == SelectSeq(registered, LAMBDA e : e.slot = X)

\* the hook of the last registration for stage X
LastRegistered(X) == RegistrationsFor(X)[Len(RegistrationsFor(X))].hook

\* C22: the later registration for a slot replaces the earlier one: a filled
\* slot holds the hook of the last registration for its stage, and a step
\* that invokes a hook for a stage invokes the hook of the last registration
\* made for that stage before the step, so a hook replaced in its slot is
\* never invoked.
C22_LastWins ==
    [][\A X \in StageSet :
          /\ Builder(X)' # None =>
                /\ RegistrationsFor(X)' # <<>>
                /\ Builder(X)'.val = LastRegistered(X)'
          /\ Invokes(X) =>
                /\ RegistrationsFor(X) # <<>>
                /\ invoked'[Len(invoked')].hook = LastRegistered(X)]_vars

\* two hooks were registered for the pipeline slot before the build, and the
\* completed build has invoked the second and never the first
C22_Witness ==
    /\ pc = "complete"
    /\ Len(RegistrationsFor("pipeline")) = 2
    /\ InvokedHooks = {LastRegistered("pipeline")}
    /\ RegistrationsFor("pipeline")[1].hook \notin InvokedHooks

\* the hook slots of the stages other than X are as before
OtherSlotsKept(X) == \A Y \in StageSet \ {X} : Builder(Y)' = Builder(Y)

\* C23: every stage operation changes only its own part of the stage.  A
\* build_X step that takes a hook empties slot X and leaves the other two
\* slots, the post-start list and the context builder; a registration for
\* slot X sets slot X only; on_rpc_started changes the list only;
\* ctx_builder changes the context builder only; and no registration
\* changes the container.
C23_Frame ==
    [][/\ \A X \in StageSet :
            Invokes(X) =>
                /\ Builder(X)' = None
                /\ OtherSlotsKept(X)
                /\ UNCHANGED <<rpc_add_ons, ctx_builder>>
       /\ \A X \in StageSet :
            (registered' # registered /\ registered'[Len(registered')].slot = X) =>
                /\ Builder(X)' = Some(registered'[Len(registered')].hook)
                /\ OtherSlotsKept(X)
                /\ UNCHANGED <<rpc_add_ons, ctx_builder, components>>
       /\ rpc_add_ons' # rpc_add_ons =>
            UNCHANGED <<pipeline_builder, engine_builder, rpc_builder, ctx_builder, components>>
       /\ ctx_builder' # ctx_builder =>
            UNCHANGED <<pipeline_builder, engine_builder, rpc_builder, rpc_add_ons, components>>]_vars

\* the caller's build_pipeline has taken the pipeline hook and filled the
\* pipeline slot of the container, an engine hook registered after it sits
\* in its slot, and the post-start list holds a hook
C23_Witness ==
    /\ Len(invoked) = 1
    /\ invoked[1].stage = "pipeline"
    /\ pipeline_builder = None
    /\ components.pipeline # None
    /\ engine_builder = Some(MaxHooks)
    /\ rpc_add_ons # <<>>
    /\ ctx_builder = "custom"

====
